---- MODULE Spec2Model ----
(***************************************************************************)
(* A model of conda_lock/invoke_conda.py: the output stream filter         *)
(* (_process_stdout), the executable resolver                              *)
(* (determine_conda_executable), the invocation helper (_invoke_conda)     *)
(* and the metadata search (search_for_md5s).                              *)
(*                                                                         *)
(* Text is modelled as sequences of one-character strings, so that         *)
(* rstrip, split, endswith and the '%' test are computed on characters.    *)
(* Operations of the filesystem and of subprocess creation are assumed to  *)
(* succeed; the results of external programs are nondeterministic.         *)
(***************************************************************************)
EXTENDS Integers, Sequences, FiniteSets, TLC

VARIABLES
    \* ---- _process_stdout ----
    stdout,               \* the lines the generator has read, in order
    eof,                  \* the stream has ended
    cache,                \* set() of progress tokens already yielded
    extracting_packages,  \* banner flag
    leading_empty,        \* "still at the very start" flag
    out,                  \* the lines yielded so far, in order
    src,                  \* src[k]: index in stdout of the line that gave out[k]
    run,                  \* number of the current generator (1-based)
    prevTokens,           \* progress tokens yielded by earlier generators
    \* ---- the process and its surroundings ----
    environ,              \* os.environ: a function from the names set to values
    files,                \* the executables that exist on the filesystem
    dirs,                 \* the directories that exist on the filesystem
    \* ---- determine_conda_executable ----
    resolved,             \* what the latest call did (see NoCall)
    ncalls,               \* calls made so far
    envWrites,            \* assignments made to os.environ so far
    \* ---- conda_pkgs_dir ----
    CONDA_PKGS_DIRS,      \* the module global: None or the directory's name
    tempdirs,             \* temporary directories created so far
    atexit_hooks,         \* cleanup hooks registered so far
    \* ---- search_for_md5s ----
    search,               \* arguments of the current call (see NoSearch)
    idx,                  \* entries of the packages list the loop is past
    found,                \* the set of names found
    yielded,              \* the records yielded so far, in order
    status,               \* "idle", "running", "done" or the exception raised
    searches,             \* the subprocess.run calls of the current call
    nsearch,              \* calls of search_for_md5s so far
    \* ---- _invoke_conda ----
    invocation,           \* arguments of the latest call (see NoInvocation)
    pc,                   \* where the latest call is: "idle", "stdout",
                          \* "stderr", "returned" or the exception raised
    spawned,              \* the Popen calls made so far
    child,                \* what the subprocess has still to write
    written,              \* what the subprocess has written, in order
    running,              \* the subprocess has not exited
    p_stdout,             \* lines in the stdout pipe
    p_stderr,             \* lines in the stderr pipe
    logged,               \* the logging calls made, in order
    ninvoke,              \* calls of _invoke_conda so far
    \* ---- callers of conda_pkgs_dir and conda_env_override ----
    pkgcalls,             \* the calls a single-threaded process has made
    tpc,                  \* tpc[t]: the line thread t is about to execute
    temp_dir,             \* temp_dir[t]: the local variable of thread t
    returns               \* returns[t]: what the calls of thread t returned

filterVars == <<stdout, eof, cache, extracting_packages, leading_empty,
                out, src, run, prevTokens>>

processVars == <<environ, files, dirs>>

resolverVars == <<resolved, ncalls, envWrites>>

pkgsVars == <<CONDA_PKGS_DIRS, tempdirs, atexit_hooks>>

searchVars == <<search, idx, found, yielded, status, searches, nsearch>>

invokeVars == <<invocation, pc, spawned, child, written, running, p_stdout,
                p_stderr, logged, ninvoke>>

callerVars == <<pkgcalls, tpc, temp_dir, returns>>

vars == <<filterVars, processVars, resolverVars, pkgsVars, searchVars,
          invokeVars, callerVars>>

\* Optional[T]: None is the empty sequence, a value x is <<x>>
None == <<>>
Some(x) == <<x>>

Range(s) == {s[i] : i \in DOMAIN s}

(***************************************************************************)
(* Bounds                                                                  *)
(***************************************************************************)
MaxLines == 4     \* longest generated input stream
MaxRuns == 2      \* generators created one after the other
MaxCalls == 2     \* calls of determine_conda_executable in one process
MaxSpecs == 2     \* longest package_specs list
MaxWrites == 2    \* lines a subprocess writes
MaxInvokes == 2   \* calls of _invoke_conda in one process
MaxPkgCalls == 3  \* calls of conda_pkgs_dir or conda_env_override
MaxThreadCalls == 2 \* calls of conda_pkgs_dir by one thread
PipeCapacity == 1 \* lines a pipe holds before the writer blocks

(***************************************************************************)
(* Text                                                                    *)
(***************************************************************************)
Whitespace == {" ", "\n", "\t"}

Banner == <<"D", "o", "w", "n", "l", "o", "a", "d", "i", "n", "g", " ", "a", "n", "d", " ", "E", "x", "t", "r", "a", "c", "t", "i", "n", "g", " ", "P", "a", "c", "k", "a", "g", "e", "s">>
L50 == <<"5", "0", "%", " ", "d", "o", "n", "e">>
L60 == <<"6", "0", "%", " ", "d", "o", "n", "e", " ", "x">>
LDone == <<"d", "o", "n", "e", " ", "\n">>
LDonePct == <<"d", "o", "n", "e", " ", "5", "%">>
LWs == <<" ", "\n">>
LEmpty == <<>>
T50 == <<"5", "0", "%">>
T60 == <<"6", "0", "%">>

\* the lines a stream is drawn from
LinePool == {LEmpty, LWs, Banner, L50, L60, LDone, LDonePct}

\* the example stream of the filter's test
ExampleInput == <<LEmpty, LEmpty, Banner, LEmpty, L50, LEmpty, L50, L60>>

\* str.rstrip()
RECURSIVE rstrip(_)
rstrip(s) ==
    IF s = <<>> THEN s
    ELSE IF s[Len(s)] \in Whitespace THEN rstrip(SubSeq(s, 1, Len(s) - 1))
    ELSE s

\* str.lstrip(), the first thing str.split() does
RECURSIVE lstrip(_)
lstrip(s) ==
    IF s = <<>> THEN s
    ELSE IF s[1] \in Whitespace THEN lstrip(Tail(s))
    ELSE s

\* the longest prefix of s without whitespace
RECURSIVE word(_)
word(s) ==
    IF s = <<>> THEN s
    ELSE IF s[1] \in Whitespace THEN <<>>
    ELSE <<s[1]>> \o word(Tail(s))

\* str.split(): the whitespace-delimited tokens of s
RECURSIVE split(_)
split(s) ==
    LET t == lstrip(s)
    IN  IF t = <<>> THEN <<>>
        ELSE <<word(t)>> \o split(SubSeq(t, Len(word(t)) + 1, Len(t)))

\* c in s
Contains(s, c) == \E i \in DOMAIN s : s[i] = c

\* s.endswith(suffix)
EndsWith(s, suffix) ==
    /\ Len(suffix) <= Len(s)
    /\ SubSeq(s, Len(s) - Len(suffix) + 1, Len(s)) = suffix

(***************************************************************************)
(* The process: environment and filesystem                                 *)
(***************************************************************************)
\* an environment without variables, a filesystem without entries
ProcessIdle ==
    /\ environ = <<>>
    /\ files = {}
    /\ dirs = {}

\* no call of determine_conda_executable has been made
NoCall == [conda_executable |-> None, status |-> "none", returned |-> None,
           which_calls |-> <<>>, ensureconda_calls |-> <<>>,
           environ0 |-> <<>>, dirs0 |-> {}]

ResolverIdle ==
    /\ resolved = NoCall
    /\ ncalls = 0
    /\ envWrites = 0

\* line 18: the module has been imported, conda_pkgs_dir never called
PkgsIdle ==
    /\ CONDA_PKGS_DIRS = None
    /\ tempdirs = 0
    /\ atexit_hooks = 0

\* no call of search_for_md5s is under way
NoSearch == [package_specs |-> <<>>, platform |-> "", channels |-> <<>>]

SearchIdle ==
    /\ search = NoSearch
    /\ idx = 0
    /\ found = {}
    /\ yielded = <<>>
    /\ status = "idle"
    /\ searches = <<>>
    /\ nsearch = 0

\* no call of _invoke_conda has been made
NoInvocation == [prefix |-> <<>>, name |-> <<>>, spawned0 |-> 0]

InvokeIdle ==
    /\ invocation = NoInvocation
    /\ pc = "idle"
    /\ spawned = <<>>
    /\ child = <<>>
    /\ written = <<>>
    /\ running = FALSE
    /\ p_stdout = <<>>
    /\ p_stderr = <<>>
    /\ logged = <<>>
    /\ ninvoke = 0

\* nothing has called conda_pkgs_dir or conda_env_override
CallerIdle ==
    /\ pkgcalls = <<>>
    /\ tpc = <<>>
    /\ temp_dir = <<>>
    /\ returns = <<>>

(***************************************************************************)
(* _process_stdout                                                         *)
(***************************************************************************)
\* a plausible slip: the line is not stripped
StripNothing(raw) == raw

\* line 105: the line as the loop body sees it
Strip(raw) == rstrip(raw)

\* line 106-107: a non-empty line clears leading_empty
LeadingEmptyAfter(logline, le) == IF logline # <<>> THEN FALSE ELSE le

\* line 108-109: the banner sets extracting_packages
ExtractingAfter(logline, ep) == IF logline = Banner THEN TRUE ELSE ep

\* a plausible slip: the banner flag is not consulted
SkippedLeadingOnly(logline, ep, le) == logline = <<>> /\ le

\* line 110: the line is skipped
Skipped(logline, ep, le) == logline = <<>> /\ (ep \/ le)

\* line 112: the line is a progress line
IsProgress(logline) == Contains(logline, "%")

\* a plausible slip: the progress line is not truncated
TokenWholeLine(logline) == logline

\* line 113: the progress token
Token(logline) == split(logline)[1]

\* a plausible slip: the cache is never consulted
NotInCacheAlways(token, c) == TRUE

\* line 114: the token has not been yielded by this generator
NotInCache(token, c) == token \notin c

\* One iteration of the loop body on a raw line, from the generator state
\* st = [cache, extracting_packages, leading_empty]: the new state and the
\* lines yielded (none or one).
ProcessLine(st, raw) ==
    LET logline == Strip(raw)
        le == LeadingEmptyAfter(logline, st.leading_empty)
        ep == ExtractingAfter(logline, st.extracting_packages)
        st1 == [cache |-> st.cache, extracting_packages |-> ep,
                leading_empty |-> le]
    IN  IF Skipped(logline, ep, le)
        THEN [st |-> st1, yield |-> <<>>]
        ELSE IF IsProgress(logline)
        THEN IF NotInCache(Token(logline), st.cache)
             THEN [st |-> [st1 EXCEPT !.cache = @ \cup {Token(logline)}],
                   yield |-> <<Token(logline)>>]
             ELSE [st |-> st1, yield |-> <<>>]
        ELSE [st |-> st1, yield |-> <<logline>>]

\* the generator state at creation, lines 101-103
NewGenerator == [cache |-> {}, extracting_packages |-> FALSE,
                 leading_empty |-> TRUE]

\* s is an initial part of t
IsPrefix(s, t) == Len(s) <= Len(t) /\ SubSeq(t, 1, Len(s)) = s

\* the streams considered: every stream of at most MaxLines lines of the pool,
\* and the example stream
MayFollow(line) ==
    \/ Len(stdout) < MaxLines
    \/ IsPrefix(Append(stdout, line), ExampleInput)

\* no generator exists
FilterIdle ==
    /\ stdout = <<>>
    /\ eof = FALSE
    /\ cache = {}
    /\ extracting_packages = FALSE
    /\ leading_empty = TRUE
    /\ out = <<>>
    /\ src = <<>>
    /\ run = 0
    /\ prevTokens = {}

InitFilter ==
    /\ ProcessIdle
    /\ ResolverIdle
    /\ PkgsIdle
    /\ SearchIdle
    /\ InvokeIdle
    /\ CallerIdle
    /\ stdout = <<>>
    /\ eof = FALSE
    /\ cache = NewGenerator.cache
    /\ extracting_packages = NewGenerator.extracting_packages
    /\ leading_empty = NewGenerator.leading_empty
    /\ out = <<>>
    /\ src = <<>>
    /\ run = 1
    /\ prevTokens = {}

\* line 104-118: the stream delivers a line and the loop body runs on it
FilterNext ==
    /\ ~eof
    /\ \E line \in LinePool :
        /\ MayFollow(line)
        /\ LET r == ProcessLine([cache |-> cache,
                                 extracting_packages |-> extracting_packages,
                                 leading_empty |-> leading_empty], line)
           IN  /\ cache' = r.st.cache
               /\ extracting_packages' = r.st.extracting_packages
               /\ leading_empty' = r.st.leading_empty
               /\ out' = out \o r.yield
               /\ src' = IF r.yield = <<>> THEN src
                         ELSE Append(src, Len(stdout) + 1)
        /\ stdout' = Append(stdout, line)
    /\ UNCHANGED <<eof, run, prevTokens, processVars, resolverVars, pkgsVars,
                   searchVars, invokeVars,
                   callerVars>>

\* line 104: the stream ends and so does the generator
FilterStop ==
    /\ ~eof
    /\ eof' = TRUE
    /\ UNCHANGED <<stdout, cache, extracting_packages, leading_empty, out,
                   src, run, prevTokens, processVars, resolverVars, pkgsVars, searchVars, invokeVars,
                   callerVars>>

\* lines 100-103: _process_stdout is called on another stream
FilterRestart ==
    /\ eof
    /\ run < MaxRuns
    /\ stdout' = <<>>
    /\ eof' = FALSE
    /\ cache' = NewGenerator.cache
    /\ extracting_packages' = NewGenerator.extracting_packages
    /\ leading_empty' = NewGenerator.leading_empty
    /\ out' = <<>>
    /\ src' = <<>>
    /\ run' = run + 1
    /\ prevTokens' = prevTokens \cup cache
    /\ UNCHANGED <<processVars, resolverVars, pkgsVars, searchVars, invokeVars,
                   callerVars>>

NextFilter == FilterNext \/ FilterStop \/ FilterRestart

SpecFilter == InitFilter /\ [][NextFilter]_vars

(***************************************************************************)
(* Properties of _process_stdout                                           *)
(***************************************************************************)
\* the stripped text of the i-th line consumed
Line(i) == rstrip(stdout[i])
IsBlankLine(i) == Line(i) = <<>>
IsProgressLine(i) == Contains(Line(i), "%")
IsPlainLine(i) == ~IsBlankLine(i) /\ ~IsProgressLine(i)
Emitted(i) == i \in Range(src)

\* C1 as stated: the example stream yields the banner, "50% done" and "60%".
C1_AsStated ==
    (stdout = ExampleInput /\ eof) => out = <<Banner, L50, T60>>

\* C1 (amended): the example stream yields exactly the banner, then "50%"
\* (the first progress line truncated to its token), then "60%".
C1_ExampleOutput ==
    (stdout = ExampleInput /\ eof) => out = <<Banner, T50, T60>>

C1_Witness == stdout = ExampleInput /\ eof /\ Len(out) = 3

\* C2 as stated: a progress line is yielded only if no equal string was
\* yielded earlier in the stream, so no progress token occurs twice in out.
C2_AsStated ==
    \A q \in DOMAIN out :
        IsProgressLine(src[q]) => \A p \in 1..(q - 1) : out[p] # out[q]

\* C2 (amended): within one generator no progress token is yielded twice by
\* progress lines; a progress line is yielded, truncated to its first token,
\* exactly when no earlier progress line of the stream had the same token
\* (an equal line without '%' does not count); a new generator starts with
\* an empty cache.
C2_ProgressTokensOnce ==
    /\ \A p, q \in DOMAIN out :
          (p < q /\ IsProgressLine(src[p]) /\ IsProgressLine(src[q]))
              => out[p] # out[q]
    /\ \A i \in 1..Len(stdout) : IsProgressLine(i) =>
          /\ Emitted(i) <=>
                ~\E j \in 1..(i - 1) :
                    IsProgressLine(j) /\ split(Line(j))[1] = split(Line(i))[1]
          /\ \A k \in DOMAIN out :
                src[k] = i => out[k] = split(Line(i))[1]
    /\ stdout = <<>> => cache = {}

\* a second generator yields a token the first one yielded, and drops a
\* repetition of it
C2_Witness ==
    /\ run = 2
    /\ \E k \in DOMAIN out : IsProgressLine(src[k]) /\ out[k] \in prevTokens
    /\ \E i \in 1..Len(stdout) : IsProgressLine(i) /\ ~Emitted(i)

\* C3: a blank line is yielded exactly when a non-blank line came before it
\* and the banner did not; so leading blanks and all blanks after the banner
\* are dropped.
C3_BlankLines ==
    \A i \in 1..Len(stdout) : IsBlankLine(i) =>
        (Emitted(i) <=>
            /\ \E j \in 1..(i - 1) : ~IsBlankLine(j)
            /\ ~\E j \in 1..(i - 1) : Line(j) = Banner)

\* a blank line was yielded before the banner and one dropped after it
C3_Witness ==
    \E i, b, j \in 1..Len(stdout) :
        /\ i < b /\ b < j
        /\ IsBlankLine(i) /\ Emitted(i)
        /\ Line(b) = Banner
        /\ IsBlankLine(j) /\ ~Emitted(j)

P_root == <<"/">>
P_a == <<"/", "a">>
P_b == <<"/", "b">>
P_a_micromamba == <<"/", "a", "/", "m", "i", "c", "r", "o", "m", "a", "m", "b", "a">>
P_b_micromamba == <<"/", "b", "/", "m", "i", "c", "r", "o", "m", "a", "m", "b", "a">>
P_b_micromamba_exe == <<"/", "b", "/", "m", "i", "c", "r", "o", "m", "a", "m", "b", "a", ".", "e", "x", "e">>
P_c_d_micromamba == <<"/", "c", "/", "d", "/", "m", "i", "c", "r", "o", "m", "a", "m", "b", "a">>
P_a_conda == <<"/", "a", "/", "c", "o", "n", "d", "a">>
P_micromamba == <<"m", "i", "c", "r", "o", "m", "a", "m", "b", "a">>
P_conda == <<"c", "o", "n", "d", "a">>
P_u_root == <<"/", "u", "/", "r", "o", "o", "t">>
P_a_mamba_root == <<"/", "a", "/", "m", "a", "m", "b", "a", "_", "r", "o", "o", "t">>
MAMBA_ROOT == <<"m", "a", "m", "b", "a", "_", "r", "o", "o", "t">>
MICROMAMBA == <<"m", "i", "c", "r", "o", "m", "a", "m", "b", "a">>
MICROMAMBA_EXE == <<"m", "i", "c", "r", "o", "m", "a", "m", "b", "a", ".", "e", "x", "e">>

\* the values of the conda_executable argument that are tried
ExplicitPool == {None, Some(<<>>), Some(P_a_micromamba), Some(P_micromamba),
                 Some(P_conda), Some(P_a_conda)}

\* what ensureconda.ensureconda may return
DiscoverPool == {None, Some(P_a_micromamba), Some(P_b_micromamba_exe),
                 Some(P_c_d_micromamba), Some(P_a_conda)}

\* the executables that may be installed when the process starts
FilePool == {P_a_micromamba, P_b_micromamba, P_a_conda}

\* the directories of the PATH variable, in order
SearchPath == <<P_a, P_b>>

\* the index of the last "/" of p, 0 when there is none
LastSlash(p) ==
    IF Contains(p, "/")
    THEN CHOOSE i \in DOMAIN p :
            p[i] = "/" /\ \A j \in DOMAIN p : p[j] = "/" => j <= i
    ELSE 0

\* pathlib.Path(p).parent, for a normalised POSIX path
Parent(p) ==
    IF LastSlash(p) = 0 THEN <<".">>
    ELSE IF LastSlash(p) = 1 THEN P_root
    ELSE SubSeq(p, 1, LastSlash(p) - 1)

\* str(pathlib.Path(d) / name)
Join(d, name) ==
    IF d = <<".">> THEN name
    ELSE IF d = P_root THEN d \o name
    ELSE d \o <<"/">> \o name

\* the directories above p
RECURSIVE Ancestors(_)
Ancestors(p) ==
    LET q == Parent(p)
    IN  IF q = <<".">> \/ q = p THEN {} ELSE {q} \cup Ancestors(q)

\* Path.mkdir(exist_ok=True, parents=True): the directories afterwards
Mkdir(p, d) == d \cup {p} \cup Ancestors(p)

\* pathlib.Path(p).exists()
Exists(p, f, d) == p \in f \cup d

\* shutil.which(cmd): cmd itself when it names a directory and exists, else
\* the first hit along the search path
which(cmd, f) ==
    IF Contains(cmd, "/")
    THEN IF cmd \in f THEN Some(cmd) ELSE None
    ELSE LET hits == SelectSeq(SearchPath, LAMBDA d : Join(d, cmd) \in f)
         IN  IF hits = <<>> THEN None ELSE Some(Join(hits[1], cmd))

\* a plausible slip: only the Windows name is recognised
is_micromamba_exe_only(conda) == EndsWith(conda, MICROMAMBA_EXE)

\* lines 163-164
is_micromamba(conda) ==
    EndsWith(conda, MICROMAMBA) \/ EndsWith(conda, MICROMAMBA_EXE)

\* lines 21-34: the call of the external helper, with its result
EnsurecondaCall(mamba, micromamba, result) ==
    [mamba |-> mamba, micromamba |-> micromamba, conda |-> TRUE,
     conda_exe |-> TRUE, result |-> result]

\* a plausible slip: a name that is not a path is not looked up
ChainNoWhich(e, mamba, micromamba, f, d, discovered) ==
    LET given == e # None /\ e[1] # <<>>
    IN  (IF given /\ Exists(e[1], f, d)
         THEN <<[value |-> e, by |-> "explicit", call |-> <<>>]>>
         ELSE <<>>)
        \o <<[value |-> discovered, by |-> "_ensureconda",
              call |-> EnsurecondaCall(mamba, micromamba, discovered)]>>

\* lines 37-45: everything the generator would yield if it were run to its
\* end, each value with the call that produced it
Chain(e, mamba, micromamba, f, d, discovered) ==
    LET given == e # None /\ e[1] # <<>>
    IN  (IF given /\ Exists(e[1], f, d)
         THEN <<[value |-> e, by |-> "explicit", call |-> <<>>]>>
         ELSE <<>>)
        \o (IF given
            THEN <<[value |-> which(e[1], f), by |-> "which",
                    call |-> [cmd |-> e[1], result |-> which(e[1], f)]]>>
            ELSE <<>>)
        \o <<[value |-> discovered, by |-> "_ensureconda",
              call |-> EnsurecondaCall(mamba, micromamba, discovered)]>>

\* lines 51-52: the index of the first candidate that is not None, 0 if none
Accepted(chain) ==
    IF \E i \in DOMAIN chain : chain[i].value # None
    THEN CHOOSE i \in DOMAIN chain :
            /\ chain[i].value # None
            /\ \A j \in 1..(i - 1) : chain[j].value = None
    ELSE 0

\* a plausible slip: the candidates are collected before they are examined
PulledAll(chain) == Len(chain)

\* lines 51-58: how many values the loop takes from the generator; the
\* return at line 58 abandons it
Pulled(chain) == IF Accepted(chain) = 0 THEN Len(chain) ELSE Accepted(chain)

\* a plausible slip: the function ends without raising
StatusNeverRaises(acc) == "returned"

\* lines 58-59
Status(acc) == IF acc = 0 THEN "RuntimeError" ELSE "returned"

SetEnv(env, key, value) ==
    [k \in DOMAIN env \cup {key} |-> IF k = key THEN value ELSE env[k]]

EmptyEnv == [k \in {} |-> <<>>]

InitResolver ==
    /\ FilterIdle
    /\ environ \in {EmptyEnv,
                    SetEnv(EmptyEnv, "MAMBA_ROOT_PREFIX", <<>>),
                    SetEnv(EmptyEnv, "MAMBA_ROOT_PREFIX", P_u_root)}
    /\ files \in SUBSET FilePool
    /\ dirs \in {{P_root, P_a, P_b}, {P_root, P_a, P_b, P_a_mamba_root}}
    /\ ResolverIdle
    /\ PkgsIdle
    /\ SearchIdle
    /\ InvokeIdle
    /\ CallerIdle

\* a plausible slip: the variable is set whether or not it is there already
RootPrefixMissingAlways(env) == TRUE

\* line 53: the process has no MAMBA_ROOT_PREFIX
RootPrefixMissing(env) == "MAMBA_ROOT_PREFIX" \notin DOMAIN env

\* the explicit part of the chain yields a candidate, so that the result of
\* discovery cannot matter to the loop
ExplicitSuffices(e, f, d) ==
    Accepted(Chain(e, FALSE, FALSE, f, d, None)) # 0

\* lines 48-59: a call of determine_conda_executable(e, mamba, micromamba)
\* during which ensureconda, if called, returns discovered (chain, acc and
\* seen are each bound to their one value)
Resolve(e, mamba, micromamba, discovered) ==
    \E chain \in {Chain(e, mamba, micromamba, files, dirs, discovered)} :
    \E acc \in {Accepted(chain)} :
    \E seen \in {SubSeq(chain, 1, Pulled(chain))} :
    LET candidate == chain[acc].value[1]
        setroot == /\ acc # 0
                   /\ is_micromamba(candidate)
                   /\ RootPrefixMissing(environ)
        mamba_root_prefix == Join(Parent(candidate), MAMBA_ROOT)
        whichs == SelectSeq(seen, LAMBDA y : y.by = "which")
        ensures == SelectSeq(seen, LAMBDA y : y.by = "_ensureconda")
    IN  /\ dirs' = IF setroot THEN Mkdir(mamba_root_prefix, dirs) ELSE dirs
        /\ environ' = IF setroot
                      THEN SetEnv(environ, "MAMBA_ROOT_PREFIX",
                                  mamba_root_prefix)
                      ELSE environ
        /\ envWrites' = IF setroot THEN envWrites + 1 ELSE envWrites
        /\ resolved' =
             [conda_executable |-> e,
              status |-> Status(acc),
              returned |-> IF acc # 0 THEN chain[acc].value ELSE None,
              which_calls |-> [i \in DOMAIN whichs |-> whichs[i].call],
              ensureconda_calls |-> [i \in DOMAIN ensures |-> ensures[i].call],
              environ0 |-> environ,
              dirs0 |-> dirs]

\* one call of determine_conda_executable, with any arguments and any answer
\* of the discovery helper
DetermineCondaExecutable ==
    /\ ncalls < MaxCalls
    /\ \E e \in ExplicitPool :
        IF ExplicitSuffices(e, files, dirs)
        THEN Resolve(e, FALSE, FALSE, None)
        ELSE \E mamba \in BOOLEAN, micromamba \in BOOLEAN,
                discovered \in DiscoverPool :
                Resolve(e, mamba, micromamba, discovered)
    /\ ncalls' = ncalls + 1
    /\ UNCHANGED <<files, filterVars, pkgsVars, searchVars, invokeVars,
                   callerVars>>

NextResolver == DetermineCondaExecutable

SpecResolver == InitResolver /\ [][NextResolver]_vars

(***************************************************************************)
(* Properties of determine_conda_executable                                *)
(***************************************************************************)
Called == ncalls > 0
Given == resolved.conda_executable # None /\ resolved.conda_executable[1] # <<>>
GivenExists == Given /\ Exists(resolved.conda_executable[1], files, resolved.dirs0)
RootPrefixWasSet == "MAMBA_ROOT_PREFIX" \in DOMAIN resolved.environ0
RootPrefixIsSet == "MAMBA_ROOT_PREFIX" \in DOMAIN environ

\* C5: a call with an explicit path that exists returns that path, and
\* neither shutil.which nor _ensureconda is called.
C5_ExplicitPathWins ==
    (Called /\ GivenExists) =>
        /\ resolved.status = "returned"
        /\ resolved.returned = resolved.conda_executable
        /\ resolved.which_calls = <<>>
        /\ resolved.ensureconda_calls = <<>>

C5_Witness ==
    /\ Called /\ GivenExists
    /\ resolved.returned = Some(P_a_micromamba)
    /\ resolved.ensureconda_calls = <<>>

\* the path discovery returned is dir/micromamba
DiscoveredIn(path, dir) ==
    /\ ~Given
    /\ Len(resolved.ensureconda_calls) = 1
    /\ resolved.ensureconda_calls[1].result = Some(path)
    /\ path = dir \o <<"/">> \o MICROMAMBA

\* C6: with no explicit path, discovery returning dir/micromamba and
\* MAMBA_ROOT_PREFIX not set, the call sets MAMBA_ROOT_PREFIX to
\* dir/mamba_root, that directory exists afterwards, and the discovered path
\* is returned.
C6_RootPrefixSynthesized ==
    \A path \in {P_a_micromamba, P_c_d_micromamba} :
        \A dir \in {SubSeq(path, 1, n) : n \in 0..Len(path)} :
            (Called /\ DiscoveredIn(path, dir) /\ ~RootPrefixWasSet) =>
                /\ RootPrefixIsSet
                /\ environ["MAMBA_ROOT_PREFIX"] = dir \o <<"/">> \o MAMBA_ROOT
                /\ dir \o <<"/">> \o MAMBA_ROOT \in dirs
                /\ resolved.status = "returned"
                /\ resolved.returned = Some(path)

\* the directory existed before the call that set the variable to it
C6_Witness ==
    /\ Called /\ DiscoveredIn(P_a_micromamba, P_a) /\ ~RootPrefixWasSet
    /\ P_a_mamba_root \in resolved.dirs0
    /\ RootPrefixIsSet /\ environ["MAMBA_ROOT_PREFIX"] = P_a_mamba_root

\* no step of the chain produced a candidate
NothingFound ==
    /\ ~GivenExists
    /\ \A i \in DOMAIN resolved.which_calls :
          resolved.which_calls[i].result = None
    /\ Len(resolved.ensureconda_calls) = 1
    /\ resolved.ensureconda_calls[1].result = None

\* C7: when the explicit path (if given) neither exists nor is found on the
\* search path and discovery returns nothing, the call raises RuntimeError,
\* returns no path and leaves MAMBA_ROOT_PREFIX and the filesystem as they were.
C7_NotFoundRaises ==
    (Called /\ NothingFound) =>
        /\ resolved.status = "RuntimeError"
        /\ resolved.returned = None
        /\ environ = resolved.environ0
        /\ dirs = resolved.dirs0

\* a name was given, looked up on the search path in vain, and discovery
\* found nothing either
C7_Witness ==
    /\ Called /\ NothingFound /\ Given
    /\ Len(resolved.which_calls) = 1
    /\ resolved.status = "RuntimeError"

(***************************************************************************)
(* _invoke_conda                                                           *)
(***************************************************************************)
W_prefix == <<"-", "-", "p", "r", "e", "f", "i", "x">>
W_name == <<"-", "-", "n", "a", "m", "e">>
W_install == <<"i", "n", "s", "t", "a", "l", "l">>
W_env == <<"/", "e">>
W_e == <<"e">>
W_flags == <<"-", "q", " ", " ", "-", "y">>
W_err == <<"e", "r", "r", "\n">>

\* what a subprocess may write: a line on one of its two streams
WritePool == {[stream |-> "stdout", line |-> L50],
              [stream |-> "stdout", line |-> LDone],
              [stream |-> "stdout", line |-> LEmpty],
              [stream |-> "stderr", line |-> W_err],
              [stream |-> "stderr", line |-> L50]}

\* a plausible slip: the check of the arguments is missing
BothGivenIgnored(prefix, name) == FALSE

\* line 69: both prefix and name are non-empty
BothGiven(prefix, name) == prefix # <<>> /\ name # <<>>

\* lines 71-80, with shlex.split on text without quotes or escapes
common_args(prefix, name, env) ==
    (IF prefix # <<>> THEN <<W_prefix, prefix>> ELSE <<>>)
    \o (IF name # <<>> THEN <<W_name, name>> ELSE <<>>)
    \o (IF "CONDA_FLAGS" \in DOMAIN env /\ env["CONDA_FLAGS"] # <<>>
        THEN split(env["CONDA_FLAGS"])
        ELSE <<>>)

\* lines 82-88: the Popen call; no env is passed, so the subprocess gets
\* os.environ as it is
Popen(conda, command_args, prefix, name, post_args, env) ==
    [args |-> <<conda>> \o command_args \o common_args(prefix, name, env)
                  \o post_args,
     env |-> env]

InitInvoke ==
    /\ FilterIdle
    /\ environ \in {EmptyEnv,
                    SetEnv(EmptyEnv, "CONDA_FLAGS", <<>>),
                    SetEnv(EmptyEnv, "CONDA_FLAGS", W_flags)}
    /\ files = {}
    /\ dirs = {}
    /\ ResolverIdle
    /\ PkgsIdle
    /\ SearchIdle
    /\ InvokeIdle
    /\ CallerIdle

\* lines 62-90: _invoke_conda is called; it raises, or starts the subprocess
\* and the generator over its stdout
InvokeCall ==
    /\ pc \in {"idle", "returned", "ValueError"}
    /\ ninvoke < MaxInvokes
    /\ ninvoke' = ninvoke + 1
    /\ \E prefix \in {<<>>, W_env}, name \in {<<>>, W_e} :
        /\ invocation' = [prefix |-> prefix, name |-> name,
                          spawned0 |-> Len(spawned)]
        /\ IF BothGiven(prefix, name)
           THEN /\ pc' = "ValueError"
                /\ UNCHANGED <<spawned, child, written, running, p_stdout, p_stderr,
                               logged, filterVars>>
           ELSE /\ pc' = "stdout"
                /\ spawned' = Append(spawned,
                                     Popen(P_a_conda, <<W_install>>, prefix,
                                           name, <<>>, environ))
                /\ \E n \in 0..MaxWrites : child' \in [1..n -> WritePool]
                /\ written' = <<>>
                /\ running' = TRUE
                /\ p_stdout' = <<>>
                /\ p_stderr' = <<>>
                /\ logged' = <<>>
                /\ stdout' = <<>>
                /\ eof' = FALSE
                /\ cache' = NewGenerator.cache
                /\ extracting_packages' = NewGenerator.extracting_packages
                /\ leading_empty' = NewGenerator.leading_empty
                /\ out' = <<>>
                /\ src' = <<>>
                /\ run' = run + 1
                /\ prevTokens' = prevTokens \cup cache
    /\ UNCHANGED <<processVars, resolverVars, pkgsVars, searchVars,
                   callerVars>>

\* the subprocess writes its next line, if the pipe has room for it
ChildWrite ==
    /\ running
    /\ child # <<>>
    /\ IF Head(child).stream = "stdout"
       THEN /\ Len(p_stdout) < PipeCapacity
            /\ p_stdout' = Append(p_stdout, Head(child).line)
            /\ UNCHANGED p_stderr
       ELSE /\ Len(p_stderr) < PipeCapacity
            /\ p_stderr' = Append(p_stderr, Head(child).line)
            /\ UNCHANGED p_stdout
    /\ child' = Tail(child)
    /\ written' = Append(written, Head(child))
    /\ UNCHANGED <<invocation, pc, spawned, running, logged, ninvoke>>
    /\ UNCHANGED <<filterVars, processVars, resolverVars, pkgsVars, searchVars,
                   callerVars>>

\* the subprocess has written everything and exits, closing its streams
ChildExit ==
    /\ running
    /\ child = <<>>
    /\ running' = FALSE
    /\ UNCHANGED <<invocation, pc, spawned, child, written, p_stdout, p_stderr, logged,
                   ninvoke>>
    /\ UNCHANGED <<filterVars, processVars, resolverVars, pkgsVars, searchVars,
                   callerVars>>

\* lines 90-91: a line arrives on stdout; what the generator yields is logged
ReadStdout ==
    /\ pc = "stdout"
    /\ p_stdout # <<>>
    /\ LET r == ProcessLine([cache |-> cache,
                             extracting_packages |-> extracting_packages,
                             leading_empty |-> leading_empty], Head(p_stdout))
       IN  /\ cache' = r.st.cache
           /\ extracting_packages' = r.st.extracting_packages
           /\ leading_empty' = r.st.leading_empty
           /\ out' = out \o r.yield
           /\ src' = IF r.yield = <<>> THEN src
                     ELSE Append(src, Len(stdout) + 1)
           /\ logged' = logged \o
                  [i \in DOMAIN r.yield |-> [level |-> "info", msg |-> r.yield[i]]]
    /\ stdout' = Append(stdout, Head(p_stdout))
    /\ p_stdout' = Tail(p_stdout)
    /\ UNCHANGED <<eof, run, prevTokens>>
    /\ UNCHANGED <<invocation, pc, spawned, child, written, running, p_stderr, ninvoke>>
    /\ UNCHANGED <<processVars, resolverVars, pkgsVars, searchVars,
                   callerVars>>

\* lines 90, 93: stdout is at its end; the loop over stderr begins
EndStdout ==
    /\ pc = "stdout"
    /\ p_stdout = <<>>
    /\ ~running
    /\ pc' = "stderr"
    /\ eof' = TRUE
    /\ UNCHANGED <<stdout, cache, extracting_packages, leading_empty, out, src,
                   run, prevTokens>>
    /\ UNCHANGED <<invocation, spawned, child, written, running, p_stdout, p_stderr,
                   logged, ninvoke>>
    /\ UNCHANGED <<processVars, resolverVars, pkgsVars, searchVars,
                   callerVars>>

\* lines 94-95: a line arrives on stderr and is logged
ReadStderr ==
    /\ pc = "stderr"
    /\ p_stderr # <<>>
    /\ logged' = Append(logged,
                        [level |-> "error", msg |-> rstrip(Head(p_stderr))])
    /\ p_stderr' = Tail(p_stderr)
    /\ UNCHANGED <<invocation, pc, spawned, child, written, running, p_stdout, ninvoke>>
    /\ UNCHANGED <<filterVars, processVars, resolverVars, pkgsVars, searchVars,
                   callerVars>>

\* lines 94, 97: stderr is at its end; the process is waited for and returned
Return ==
    /\ pc = "stderr"
    /\ p_stderr = <<>>
    /\ ~running
    /\ pc' = "returned"
    /\ UNCHANGED <<invocation, spawned, child, written, running, p_stdout, p_stderr,
                   logged, ninvoke>>
    /\ UNCHANGED <<filterVars, processVars, resolverVars, pkgsVars, searchVars,
                   callerVars>>

NextInvoke ==
    \/ InvokeCall
    \/ ChildWrite
    \/ ChildExit
    \/ ReadStdout
    \/ EndStdout
    \/ ReadStderr
    \/ Return

SpecInvoke == InitInvoke /\ [][NextInvoke]_vars

(***************************************************************************)
(* Properties of _invoke_conda                                             *)
(***************************************************************************)
\* C8: a call with both a non-empty prefix and a non-empty name raises
\* ValueError, and no subprocess is spawned in that call.
C8_PrefixAndNameRejected ==
    (ninvoke > 0 /\ invocation.prefix # <<>> /\ invocation.name # <<>>) =>
        /\ pc = "ValueError"
        /\ Len(spawned) = invocation.spawned0

\* the second call was rejected after the first had spawned a subprocess
C8_Witness ==
    /\ ninvoke = 2
    /\ invocation.prefix = W_env /\ invocation.name = W_e
    /\ pc = "ValueError"
    /\ Len(spawned) = 1

(***************************************************************************)
(* conda_pkgs_dir and conda_env_override                                   *)
(***************************************************************************)
\* tempfile.TemporaryDirectory().name: a name not handed out before
TempName(n) == <<"/tmp/tmp1", "/tmp/tmp2", "/tmp/tmp3", "/tmp/tmp4",
                 "/tmp/tmp5", "/tmp/tmp6", "/tmp/tmp7", "/tmp/tmp8">>[n + 1]

\* a plausible slip: the global is not consulted
conda_pkgs_dir_uncached(g, n, h) ==
    [value |-> TempName(n), CONDA_PKGS_DIRS |-> Some(TempName(n)),
     tempdirs |-> n + 1, atexit_hooks |-> h + 1]

\* lines 152-160: the value returned and the state left behind by a call made
\* with the global g, when n directories and h hooks exist already
conda_pkgs_dir(g, n, h) ==
    IF g = None
    THEN [value |-> TempName(n), CONDA_PKGS_DIRS |-> Some(TempName(n)),
          tempdirs |-> n + 1, atexit_hooks |-> h + 1]
    ELSE [value |-> g[1], CONDA_PKGS_DIRS |-> g,
          tempdirs |-> n, atexit_hooks |-> h]

\* a plausible slip: keys already present are kept (dict.setdefault)
UpdateKeepOld(env, upd) ==
    [k \in DOMAIN env \cup DOMAIN upd |->
        IF k \in DOMAIN env THEN env[k] ELSE upd[k]]

\* dict.update: the keys of upd replace or extend those of env
Update(env, upd) ==
    [k \in DOMAIN env \cup DOMAIN upd |->
        IF k \in DOMAIN upd THEN upd[k] ELSE env[k]]

\* lines 121-131, pkgs_dir being what conda_pkgs_dir() returned
conda_env_override(env, platform, pkgs_dir) ==
    Update(env,
           [k \in {"CONDA_SUBDIR", "CONDA_PKGS_DIRS",
                   "CONDA_UNSATISFIABLE_HINTS_CHECK_DEPTH",
                   "CONDA_ADD_PIP_AS_PYTHON_DEPENDENCY"} |->
               CASE k = "CONDA_SUBDIR" -> platform
                 [] k = "CONDA_PKGS_DIRS" -> pkgs_dir
                 [] k = "CONDA_UNSATISFIABLE_HINTS_CHECK_DEPTH" -> "0"
                 [] k = "CONDA_ADD_PIP_AS_PYTHON_DEPENDENCY" -> "False"])

(***************************************************************************)
(* search_for_md5s                                                         *)
(***************************************************************************)
Names == {"a", "b"}

\* a package spec of the given name and version
PackageSpec(name, version) ==
    [name |-> name, version |-> version, platform |-> "linux-64",
     channel |-> "conda-forge", build_string |-> "0",
     url |-> <<"https://c/", name, "-", version, ".tar.bz2">>,
     url_conda |-> <<"https://c/", name, "-", version, ".conda">>]

SpecPool == {PackageSpec(n, v) : n \in Names, v \in {"1", "2"}}

\* lines 178-186: the f-string, as its pieces
matchspec(spec) ==
    <<spec.name, "[", "version=", spec.version, ",", "subdir=", spec.platform,
      ",", "channel=", spec.channel, ",", "build=", spec.build_string, "]">>

\* a plausible slip: the three queries of a spec are kept together
RECURSIVE PackagesPerSpec(_)
PackagesPerSpec(package_specs) ==
    IF package_specs = <<>> THEN <<>>
    ELSE LET d == Head(package_specs)
         IN  << <<d.name, matchspec(d)>>,
                <<d.name, <<d.name, "[url='">> \o d.url_conda \o <<"']">> >>,
                <<d.name, <<d.name, "[url='">> \o d.url \o <<"']">> >> >>
             \o PackagesPerSpec(Tail(package_specs))

\* lines 190-194: the packages list
Packages(package_specs) ==
    [i \in DOMAIN package_specs |->
        <<package_specs[i].name, matchspec(package_specs[i])>>]
    \o [i \in DOMAIN package_specs |->
        <<package_specs[i].name,
          <<package_specs[i].name, "[url='">> \o package_specs[i].url_conda
              \o <<"']">> >>]
    \o [i \in DOMAIN package_specs |->
        <<package_specs[i].name,
          <<package_specs[i].name, "[url='">> \o package_specs[i].url
              \o <<"']">> >>]

\* lines 199-202
RECURSIVE channel_args(_)
channel_args(channels) ==
    IF channels = <<>> THEN <<>>
    ELSE <<"-c", Head(channels)>> \o channel_args(Tail(channels))

Cmd(conda, channels, spec) ==
    <<conda, "search">> \o channel_args(channels) \o <<"--json", spec>>

\* what the JSON a search prints may parse to: a mapping from some names to
\* lists of records (md5 sums stand for the records)
CandidateLists == {<<>>, <<"m1">>, <<"m2">>, <<"m1", "m2">>}
Contents == UNION {[S -> CandidateLists] : S \in SUBSET Names}

\* a plausible slip: a name is searched again although it was found
AlreadyFoundNever(name, fnd) == FALSE

\* a plausible slip: a name is put aside once it has been searched for,
\* whether or not the search matched
AlreadyTried(name, fnd) ==
    name \in fnd \/ \E k \in DOMAIN searches : searches[k].name = name

\* line 197
AlreadyFound(name, fnd) == name \in fnd

\* a plausible slip: only an empty list of candidates is rejected
AssertionHoldsIfAny(candidates) == Len(candidates) >= 1

\* line 214
AssertionHolds(candidates) == Len(candidates) = 1

InitSearch ==
    /\ FilterIdle
    /\ environ \in {EmptyEnv,
                    [k \in {"CONDA_SUBDIR", "CONDA_PKGS_DIRS", "HOME"} |->
                        CASE k = "CONDA_SUBDIR" -> "osx-64"
                          [] k = "CONDA_PKGS_DIRS" -> "/home/pkgs"
                          [] k = "HOME" -> "/home"]}
    /\ files = {}
    /\ dirs = {}
    /\ ResolverIdle
    /\ PkgsIdle
    /\ SearchIdle
    /\ InvokeIdle
    /\ CallerIdle

\* lines 167-194: search_for_md5s is called and its generator started; the
\* process makes one such call
SearchCall ==
    /\ status = "idle"
    /\ \E n \in 0..MaxSpecs :
         \E package_specs \in [1..n -> SpecPool],
            platform \in {"linux-64", "win-64"},
            channels \in {<<>>, <<"conda-forge">>} :
            search' = [package_specs |-> package_specs,
                       platform |-> platform, channels |-> channels]
    /\ idx' = 0
    /\ found' = {}
    /\ yielded' = <<>>
    /\ status' = "running"
    /\ searches' = <<>>
    /\ nsearch' = nsearch + 1
    /\ UNCHANGED <<filterVars, processVars, resolverVars, pkgsVars, invokeVars,
                   callerVars>>

\* lines 196-198: the name of the next entry is in found
SearchSkip ==
    /\ status = "running"
    /\ idx < Len(Packages(search.package_specs))
    /\ AlreadyFound(Packages(search.package_specs)[idx + 1][1], found)
    /\ idx' = idx + 1
    /\ UNCHANGED <<search, found, yielded, status, searches, nsearch>>
    /\ UNCHANGED <<filterVars, processVars, resolverVars, pkgsVars, invokeVars,
                   callerVars>>

\* lines 199-217: the next entry is searched for; the subprocess prints
\* either text that is not JSON or the JSON of some content
SearchQuery ==
    /\ status = "running"
    /\ idx < Len(Packages(search.package_specs))
    /\ LET name == Packages(search.package_specs)[idx + 1][1]
           spec == Packages(search.package_specs)[idx + 1][2]
           dir == conda_pkgs_dir(CONDA_PKGS_DIRS, tempdirs, atexit_hooks)
           run_(hits) ==
               Append(searches,
                      [entry |-> idx + 1, name |-> name,
                       cmd |-> Cmd("conda", search.channels, spec),
                       env |-> conda_env_override(environ, search.platform,
                                                  dir.value),
                       hits |-> hits])
       IN  /\ ~AlreadyFound(name, found)
           /\ CONDA_PKGS_DIRS' = dir.CONDA_PKGS_DIRS
           /\ tempdirs' = dir.tempdirs
           /\ atexit_hooks' = dir.atexit_hooks
           /\ \/ \* line 211: json.loads raises
                 /\ searches' = run_(-2)
                 /\ status' = "JSONDecodeError"
                 /\ UNCHANGED <<idx, found, yielded>>
              \/ \E content \in Contents :
                   IF name \in DOMAIN content
                   THEN IF AssertionHolds(content[name])
                        THEN /\ searches' = run_(Len(content[name]))
                             /\ yielded' = Append(yielded,
                                    [name |-> name, entry |-> idx + 1,
                                     record |-> content[name][1]])
                             /\ found' = found \cup {name}
                             /\ idx' = idx + 1
                             /\ UNCHANGED status
                        ELSE /\ searches' = run_(Len(content[name]))
                             /\ status' = "AssertionError"
                             /\ UNCHANGED <<idx, found, yielded>>
                   ELSE /\ searches' = run_(-1)
                        /\ idx' = idx + 1
                        /\ UNCHANGED <<found, yielded, status>>
    /\ UNCHANGED <<search, nsearch>>
    /\ UNCHANGED <<filterVars, processVars, resolverVars, invokeVars,
                   callerVars>>

\* line 196: the packages list is exhausted and the generator ends
SearchEnd ==
    /\ status = "running"
    /\ idx = Len(Packages(search.package_specs))
    /\ status' = "done"
    /\ UNCHANGED <<search, idx, found, yielded, searches, nsearch>>
    /\ UNCHANGED <<filterVars, processVars, resolverVars, pkgsVars, invokeVars,
                   callerVars>>

NextSearch == SearchCall \/ SearchSkip \/ SearchQuery \/ SearchEnd

SpecSearch == InitSearch /\ [][NextSearch]_vars

(***************************************************************************)
(* Properties of search_for_md5s                                           *)
(***************************************************************************)
\* two of the specs passed in have the name n
SameNameTwice(n) ==
    \E i, j \in DOMAIN search.package_specs :
        /\ i < j
        /\ search.package_specs[i].name = n
        /\ search.package_specs[j].name = n

\* the subprocess calls made for the name n, and those that matched
SearchesFor(n) == {k \in DOMAIN searches : searches[k].name = n}
Matches(n) == {k \in SearchesFor(n) : searches[k].hits = 1}

\* C9 as stated: a name that two specs share is searched for at most once.
C9_AsStated ==
    \A n \in Names : SameNameTwice(n) => Cardinality(SearchesFor(n)) <= 1

\* C9 (amended): for a name that two specs share, at most one subprocess call
\* matches, and no call is made for the name after the one that matched;
\* calls that do not match are followed by the remaining queries of the name.
C9_OneMatchPerName ==
    \A n \in Names : SameNameTwice(n) =>
        /\ Cardinality(Matches(n)) <= 1
        /\ \A k \in Matches(n) : \A m \in SearchesFor(n) : m <= k

\* a shared name missed once, matched on its second query, and the loop ended
C9_Witness ==
    /\ status = "done"
    /\ \E n \in Names :
        /\ SameNameTwice(n)
        /\ Cardinality(SearchesFor(n)) = 2
        /\ Matches(n) # {}

\* C10: a response holding the queried name with no candidate or with several
\* ends the search with AssertionError: nothing is yielded for it, the name
\* is not added to found, and no query follows.
C10_WrongCountAsserts ==
    \A k \in DOMAIN searches :
        (searches[k].hits >= 0 /\ searches[k].hits # 1) =>
            /\ status = "AssertionError"
            /\ k = Len(searches)
            /\ searches[k].name \notin found
            /\ \A y \in DOMAIN yielded : yielded[y].entry # searches[k].entry

\* after a record was yielded for one name, two candidates came for another
C10_Witness ==
    /\ status = "AssertionError"
    /\ yielded # <<>>
    /\ searches[Len(searches)].hits = 2

\* the query the claim expects at place e of the query list: the matchspec
\* of every spec, then the url_conda query of every spec, then the url query
ExpectedQuery(e) ==
    LET n == Len(search.package_specs)
        d == search.package_specs[((e - 1) % n) + 1]
    IN  CASE (e - 1) \div n = 0 ->
               <<d.name, "[", "version=", d.version, ",", "subdir=",
                 d.platform, ",", "channel=", d.channel, ",", "build=",
                 d.build_string, "]">>
          [] (e - 1) \div n = 1 -> <<d.name, "[url='">> \o d.url_conda \o <<"']">>
          [] OTHER -> <<d.name, "[url='">> \o d.url \o <<"']">>

ExpectedName(e) ==
    search.package_specs[((e - 1) % Len(search.package_specs)) + 1].name

\* C11: at most one record is yielded per name, one for exactly the names
\* some query matched, in the order of the matching queries along the query
\* list (all matchspec queries in input order, then all url_conda queries,
\* then all url queries); a name no query matched gets none, and the search
\* still ends normally.
C11_RecordsInQueryOrder ==
    /\ \A y, z \in DOMAIN yielded : y < z =>
          /\ yielded[y].name # yielded[z].name
          /\ yielded[y].entry < yielded[z].entry
    /\ \A n \in Names :
          (\E y \in DOMAIN yielded : yielded[y].name = n) <=> Matches(n) # {}
    /\ \A y \in DOMAIN yielded :
          \E k \in Matches(yielded[y].name) :
              searches[k].entry = yielded[y].entry
    /\ \A k, m \in DOMAIN searches : k < m => searches[k].entry < searches[m].entry
    /\ \A k \in DOMAIN searches :
          /\ searches[k].name = ExpectedName(searches[k].entry)
          /\ searches[k].cmd[Len(searches[k].cmd)] = ExpectedQuery(searches[k].entry)
    /\ status = "done" =>
          \A i \in DOMAIN search.package_specs :
              Matches(search.package_specs[i].name) = {} =>
                  /\ \A y \in DOMAIN yielded :
                        yielded[y].name # search.package_specs[i].name
                  /\ \A e \in 1..(3 * Len(search.package_specs)) :
                        ExpectedName(e) = search.package_specs[i].name =>
                            \E k \in DOMAIN searches :
                                searches[k].entry = e /\ searches[k].hits = -1

\* the second spec's name was resolved before the first's, which took its
\* url query
C11_Witness ==
    /\ status = "done"
    /\ Len(search.package_specs) = 2
    /\ search.package_specs[1].name = "a"
    /\ search.package_specs[2].name = "b"
    /\ Len(yielded) = 2
    /\ yielded[1].name = "b" /\ yielded[1].entry = 2
    /\ yielded[2].name = "a" /\ yielded[2].entry = 5

(***************************************************************************)
(* A single-threaded process calling conda_pkgs_dir and conda_env_override *)
(***************************************************************************)
OverrideKeys == {"CONDA_SUBDIR", "CONDA_PKGS_DIRS",
                 "CONDA_UNSATISFIABLE_HINTS_CHECK_DEPTH",
                 "CONDA_ADD_PIP_AS_PYTHON_DEPENDENCY"}

Platforms == {"linux-64", "win-64", "osx-64"}

\* environments the process may have been started with
EnvironPool ==
    {EmptyEnv,
     [k \in {"HOME"} |-> "/home"],
     [k \in OverrideKeys \cup {"HOME"} |->
        CASE k = "CONDA_SUBDIR" -> "osx-64"
          [] k = "CONDA_PKGS_DIRS" -> "/home/pkgs"
          [] k = "CONDA_UNSATISFIABLE_HINTS_CHECK_DEPTH" -> "3"
          [] k = "CONDA_ADD_PIP_AS_PYTHON_DEPENDENCY" -> "True"
          [] k = "HOME" -> "/home"]}

InitPkgs ==
    /\ FilterIdle
    /\ environ \in EnvironPool
    /\ files = {}
    /\ dirs = {}
    /\ ResolverIdle
    /\ PkgsIdle
    /\ SearchIdle
    /\ InvokeIdle
    /\ CallerIdle

\* lines 152-160: a call of conda_pkgs_dir()
CallCondaPkgsDir ==
    /\ Len(pkgcalls) < MaxPkgCalls
    /\ LET dir == conda_pkgs_dir(CONDA_PKGS_DIRS, tempdirs, atexit_hooks)
       IN  /\ CONDA_PKGS_DIRS' = dir.CONDA_PKGS_DIRS
           /\ tempdirs' = dir.tempdirs
           /\ atexit_hooks' = dir.atexit_hooks
           /\ pkgcalls' = Append(pkgcalls,
                  [op |-> "conda_pkgs_dir", platform |-> "",
                   value |-> dir.value, env |-> EmptyEnv,
                   environ0 |-> environ])
    /\ UNCHANGED <<tpc, temp_dir, returns>>
    /\ UNCHANGED <<filterVars, processVars, resolverVars, searchVars, invokeVars>>

\* lines 121-131: a call of conda_env_override(platform)
CallCondaEnvOverride ==
    /\ Len(pkgcalls) < MaxPkgCalls
    /\ \E platform \in Platforms :
        LET dir == conda_pkgs_dir(CONDA_PKGS_DIRS, tempdirs, atexit_hooks)
        IN  /\ CONDA_PKGS_DIRS' = dir.CONDA_PKGS_DIRS
            /\ tempdirs' = dir.tempdirs
            /\ atexit_hooks' = dir.atexit_hooks
            /\ pkgcalls' = Append(pkgcalls,
                   [op |-> "conda_env_override", platform |-> platform,
                    value |-> dir.value,
                    env |-> conda_env_override(environ, platform, dir.value),
                    environ0 |-> environ])
    /\ UNCHANGED <<tpc, temp_dir, returns>>
    /\ UNCHANGED <<filterVars, processVars, resolverVars, searchVars, invokeVars>>

NextPkgs == CallCondaPkgsDir \/ CallCondaEnvOverride

SpecPkgs == InitPkgs /\ [][NextPkgs]_vars

\* C12: in a single-threaded process the temporary directory is created at
\* most once, by the first call, with exactly one cleanup hook registered;
\* every call returns the same path, which is the cached value and never
\* changes.
C12_PkgsDirCreatedOnce ==
    /\ tempdirs <= 1
    /\ atexit_hooks = tempdirs
    /\ pkgcalls = <<>> => CONDA_PKGS_DIRS = None
    /\ pkgcalls # <<>> =>
          /\ tempdirs = 1
          /\ CONDA_PKGS_DIRS # None
          /\ \A k \in DOMAIN pkgcalls :
                /\ pkgcalls[k].value = pkgcalls[1].value
                /\ pkgcalls[k].value = CONDA_PKGS_DIRS[1]

\* three calls, direct and through conda_env_override, and one directory
C12_Witness ==
    /\ Len(pkgcalls) = 3
    /\ pkgcalls[1].op = "conda_env_override"
    /\ pkgcalls[2].op = "conda_pkgs_dir"
    /\ pkgcalls[3].op = "conda_pkgs_dir"
    /\ pkgcalls[3].value = pkgcalls[1].value
    /\ tempdirs = 1

\* C13: the mapping conda_env_override(platform) returns has the keys of
\* os.environ and the four override keys; it agrees with os.environ on every
\* other key, the four keys hold the platform, the packages directory, "0"
\* and "False" whatever os.environ held, and os.environ is as it was.
C13_EnvOverride ==
    \A k \in DOMAIN pkgcalls : pkgcalls[k].op = "conda_env_override" =>
        /\ DOMAIN pkgcalls[k].env = DOMAIN pkgcalls[k].environ0 \cup OverrideKeys
        /\ \A key \in DOMAIN pkgcalls[k].environ0 \ OverrideKeys :
              pkgcalls[k].env[key] = pkgcalls[k].environ0[key]
        /\ pkgcalls[k].env["CONDA_SUBDIR"] = pkgcalls[k].platform
        /\ pkgcalls[k].env["CONDA_PKGS_DIRS"] = CONDA_PKGS_DIRS[1]
        /\ pkgcalls[k].env["CONDA_UNSATISFIABLE_HINTS_CHECK_DEPTH"] = "0"
        /\ pkgcalls[k].env["CONDA_ADD_PIP_AS_PYTHON_DEPENDENCY"] = "False"
        /\ environ = pkgcalls[k].environ0

\* os.environ held other values for the four keys, and one more key
C13_Witness ==
    /\ pkgcalls # <<>>
    /\ pkgcalls[1].op = "conda_env_override"
    /\ pkgcalls[1].platform = "linux-64"
    /\ OverrideKeys \subseteq DOMAIN environ
    /\ environ["CONDA_SUBDIR"] = "osx-64"
    /\ pkgcalls[1].env["CONDA_SUBDIR"] = "linux-64"
    /\ pkgcalls[1].env["HOME"] = "/home"

(***************************************************************************)
(* The subprocess of _invoke_conda: its environment and its two pipes      *)
(***************************************************************************)
\* C14: every subprocess _invoke_conda starts is given the environment of
\* conda_env_override: the four override keys are set, and the packages
\* directory is the one of this process.
C14_AsStated ==
    \A k \in DOMAIN spawned :
        /\ OverrideKeys \subseteq DOMAIN spawned[k].env
        /\ CONDA_PKGS_DIRS # None
        /\ spawned[k].env["CONDA_PKGS_DIRS"] = CONDA_PKGS_DIRS[1]

\* the helper is inside one of its two loops
Draining == pc \in {"stdout", "stderr"}

\* C15: while the helper drains the subprocess, the helper or the subprocess
\* can always take a step, so the helper is never left waiting on one stream
\* while the subprocess waits for room on the other.
C15_AsStated ==
    Draining =>
        ENABLED (ChildWrite \/ ChildExit \/ ReadStdout \/ EndStdout
                 \/ ReadStderr \/ Return)

StderrWritten == SelectSeq(written, LAMBDA w : w.stream = "stderr")

ErrorsLogged == SelectSeq(logged, LAMBDA l : l.level = "error")

\* the stderr lines the subprocess wrote before its m-th stdout line
StderrBefore(m) ==
    Cardinality({i \in DOMAIN written :
        /\ written[i].stream = "stderr"
        /\ Cardinality({j \in 1..i : written[j].stream = "stdout"}) < m})

\* C16: the error entries of the log are the stderr lines written, stripped,
\* in order and once each; and when a stdout line has been logged, every
\* stderr line written before it has been logged already.
C16_AsStated ==
    /\ Len(ErrorsLogged) <= Len(StderrWritten)
    /\ \A i \in DOMAIN ErrorsLogged :
          ErrorsLogged[i].msg = rstrip(StderrWritten[i].line)
    /\ src # <<>> => Len(ErrorsLogged) >= StderrBefore(src[Len(src)])

(***************************************************************************)
(* Which entries of the packages list reach a subprocess                   *)
(***************************************************************************)
\* the name of entry e has matched at an entry before e
MatchedBefore(e) ==
    \E j \in DOMAIN yielded :
        yielded[j].name = ExpectedName(e) /\ yielded[j].entry < e

Searched(e) == \E k \in DOMAIN searches : searches[k].entry = e

\* C17: no subprocess is started for an entry whose name has matched at an
\* earlier entry, and every entry passed over without a subprocess is one
\* whose name had matched: a name that has only missed is searched again.
C17_SkippedIffMatched ==
    /\ \A k \in DOMAIN searches : ~MatchedBefore(searches[k].entry)
    /\ \A e \in 1..idx : Searched(e) \/ MatchedBefore(e)
    /\ \A k, l \in DOMAIN searches :
          searches[k].entry = searches[l].entry => k = l

\* two specs of one name: the first query misses, the second matches, and
\* the four remaining queries are passed over
C17_Witness ==
    /\ status = "done"
    /\ Len(search.package_specs) = 2
    /\ search.package_specs[1].name = "a"
    /\ search.package_specs[2].name = "a"
    /\ idx = 6
    /\ Len(searches) = 2
    /\ searches[1].entry = 1 /\ searches[1].hits = -1
    /\ searches[2].entry = 2 /\ searches[2].hits = 1

(***************************************************************************)
(* The order of the resolver's candidates, and its writes                  *)
(***************************************************************************)
\* what shutil.which answers for the explicit value of the last call
WhichOfGiven == which(resolved.conda_executable[1], files)

\* C18: shutil.which is called exactly when an explicit value was given that
\* does not exist as a path, with that value and once; _ensureconda is called
\* exactly when neither of these gave a candidate, and once; the call returns
\* the explicit path if it exists, else what shutil.which found, else what
\* _ensureconda returned.
C18_ChainOrder ==
    Called =>
        /\ Len(resolved.which_calls) <= 1
        /\ Len(resolved.ensureconda_calls) <= 1
        /\ resolved.which_calls # <<>> <=> (Given /\ ~GivenExists)
        /\ resolved.which_calls # <<>> =>
              /\ resolved.which_calls[1].cmd = resolved.conda_executable[1]
              /\ resolved.which_calls[1].result = WhichOfGiven
        /\ resolved.ensureconda_calls # <<>> <=>
              (~Given \/ (~GivenExists /\ WhichOfGiven = None))
        /\ resolved.returned =
              IF GivenExists THEN resolved.conda_executable
              ELSE IF Given /\ WhichOfGiven # None THEN WhichOfGiven
              ELSE resolved.ensureconda_calls[1].result

\* an explicit name that is no path and is not on the search path: the
\* discovery helper is called after shutil.which, and its answer returned
C18_Witness ==
    /\ Called /\ Given /\ ~GivenExists
    /\ Len(resolved.which_calls) = 1
    /\ resolved.which_calls[1].result = None
    /\ Len(resolved.ensureconda_calls) = 1
    /\ resolved.ensureconda_calls[1].result # None
    /\ resolved.returned = resolved.ensureconda_calls[1].result

\* the last call had no reason to write: the variable was there, or what it
\* accepted is no micromamba
NoReasonToWrite ==
    \/ RootPrefixWasSet
    \/ resolved.returned = None
    \/ ~is_micromamba(resolved.returned[1])

\* C19: over all the calls of a process MAMBA_ROOT_PREFIX is written at most
\* once, and a call that finds the variable present, or accepts a candidate
\* that is no micromamba, leaves os.environ and the directories as they were.
C19_RootPrefixWrittenOnce ==
    /\ envWrites <= 1
    /\ (Called /\ NoReasonToWrite) => (environ = resolved.environ0
                                       /\ dirs = resolved.dirs0)

\* the second call accepts a micromamba in another directory than the one
\* the first call derived the variable from
C19_Witness ==
    /\ ncalls = 2
    /\ envWrites = 1
    /\ RootPrefixWasSet
    /\ resolved.returned # None
    /\ is_micromamba(resolved.returned[1])
    /\ Join(Parent(resolved.returned[1]), MAMBA_ROOT)
          # environ["MAMBA_ROOT_PREFIX"]
    /\ environ = resolved.environ0

(***************************************************************************)
(* Two threads calling conda_pkgs_dir, one line of it at a time            *)
(***************************************************************************)
\* the two threads the claim speaks of
Threads == {1, 2}

InitThreads ==
    /\ FilterIdle
    /\ ProcessIdle
    /\ ResolverIdle
    /\ PkgsIdle
    /\ SearchIdle
    /\ InvokeIdle
    /\ pkgcalls = <<>>
    /\ tpc = [t \in Threads |-> "idle"]
    /\ temp_dir = [t \in Threads |-> None]
    /\ returns = [t \in Threads |-> <<>>]

\* line 152: a thread enters conda_pkgs_dir
ThreadCall ==
    \E t \in Threads :
        /\ tpc[t] = "idle"
        /\ Len(returns[t]) < MaxThreadCalls
        /\ tpc' = [tpc EXCEPT ![t] = "154"]
        /\ UNCHANGED <<pkgcalls, temp_dir, returns>>
        /\ UNCHANGED <<filterVars, processVars, resolverVars, pkgsVars,
                       searchVars, invokeVars>>

\* line 154: the test of the global
ThreadCheck ==
    \E t \in Threads :
        /\ tpc[t] = "154"
        /\ tpc' = [tpc EXCEPT ![t] = IF CONDA_PKGS_DIRS = None THEN "155"
                                     ELSE "160"]
        /\ UNCHANGED <<pkgcalls, temp_dir, returns>>
        /\ UNCHANGED <<filterVars, processVars, resolverVars, pkgsVars,
                       searchVars, invokeVars>>

\* line 155: a temporary directory is created
ThreadCreate ==
    \E t \in Threads :
        /\ tpc[t] = "155"
        /\ temp_dir' = [temp_dir EXCEPT ![t] = Some(TempName(tempdirs))]
        /\ tempdirs' = tempdirs + 1
        /\ tpc' = [tpc EXCEPT ![t] = "156"]
        /\ UNCHANGED <<pkgcalls, returns, CONDA_PKGS_DIRS, atexit_hooks>>
        /\ UNCHANGED <<filterVars, processVars, resolverVars, searchVars,
                       invokeVars>>

\* line 156: its name is stored in the global
ThreadStore ==
    \E t \in Threads :
        /\ tpc[t] = "156"
        /\ CONDA_PKGS_DIRS' = temp_dir[t]
        /\ tpc' = [tpc EXCEPT ![t] = "157"]
        /\ UNCHANGED <<pkgcalls, temp_dir, returns, tempdirs, atexit_hooks>>
        /\ UNCHANGED <<filterVars, processVars, resolverVars, searchVars,
                       invokeVars>>

\* line 157: its cleanup is registered
ThreadRegister ==
    \E t \in Threads :
        /\ tpc[t] = "157"
        /\ atexit_hooks' = atexit_hooks + 1
        /\ tpc' = [tpc EXCEPT ![t] = "158"]
        /\ UNCHANGED <<pkgcalls, temp_dir, returns, CONDA_PKGS_DIRS, tempdirs>>
        /\ UNCHANGED <<filterVars, processVars, resolverVars, searchVars,
                       invokeVars>>

\* line 158: the global is read again and returned
ThreadReturn ==
    \E t \in Threads :
        /\ tpc[t] = "158"
        /\ returns' = [returns EXCEPT ![t] = Append(@, CONDA_PKGS_DIRS[1])]
        /\ temp_dir' = [temp_dir EXCEPT ![t] = None]
        /\ tpc' = [tpc EXCEPT ![t] = "idle"]
        /\ UNCHANGED pkgcalls
        /\ UNCHANGED <<filterVars, processVars, resolverVars, pkgsVars,
                       searchVars, invokeVars>>

\* line 160: the global was set already and is returned
ThreadReturnElse ==
    \E t \in Threads :
        /\ tpc[t] = "160"
        /\ returns' = [returns EXCEPT ![t] = Append(@, CONDA_PKGS_DIRS[1])]
        /\ tpc' = [tpc EXCEPT ![t] = "idle"]
        /\ UNCHANGED <<pkgcalls, temp_dir>>
        /\ UNCHANGED <<filterVars, processVars, resolverVars, pkgsVars,
                       searchVars, invokeVars>>

NextThreads ==
    \/ ThreadCall
    \/ ThreadCheck
    \/ ThreadCreate
    \/ ThreadStore
    \/ ThreadRegister
    \/ ThreadReturn
    \/ ThreadReturnElse

SpecThreads == InitThreads /\ [][NextThreads]_vars

\* C20: with two threads calling conda_pkgs_dir, at most one temporary
\* directory is created, at most one cleanup is registered, and every call
\* of either thread returns the same path.
C20_AsStated ==
    /\ tempdirs <= 1
    /\ atexit_hooks <= 1
    /\ \A t, u \in Threads :
          \A i \in DOMAIN returns[t], j \in DOMAIN returns[u] :
              returns[t][i] = returns[u][j]

====
